---- MODULE Spec2Model ----
(***************************************************************************)
(* Model of the two scene scripts of the repository:                       *)
(*   src/main.js          the "abyss" scene (jellyfish, tablets, vents,    *)
(*                        swarm)                                           *)
(*   src/unnamed/part_000 the "dream" scene (heart, glass panes with       *)
(*                        physics bodies, spires, particle river)          *)
(* Both are single-threaded browser scripts: a click listener, and an      *)
(* animate() callback run once per display frame.  Eased transitions are   *)
(* gsap.to() tweens, which GSAP renders from its own per-frame ticker.     *)
(*                                                                         *)
(* Numbers.  Each part states its unit of time; for the tweens it is the   *)
(* tenth of a second.  Tweened values are fixed point with Scale steps per *)
(* unit (GSAP rounds every value it writes to that precision).             *)
(*                                                                         *)
(* There is one specification per part of the scripts, each over the state *)
(* that part reads and writes: ClickSpec (click listener and the camera    *)
(* transition, both scenes), HoverSpec (hover glow, abyss), VentSpec and   *)
(* SwarmSpec (particle fields, abyss), DreamSpec (animate() of the dream   *)
(* scene), FrameSpec (animate() of the abyss scene, section by section).   *)
(* The parts write disjoint state, except FrameSpec, whose sections are    *)
(* the particle and hover updates of the other abyss parts.                *)
(***************************************************************************)
EXTENDS Integers, Sequences, FiniteSets, TLC

VARIABLES
    scene,          \* which script is running: "abyss" (main.js) or "dream" (part_000)
    controlsTarget, \* controls.target, the camera look-at point (3 fixed-point numbers)
    title,          \* textContent of #info-title
    description,    \* textContent of #info-description
    targetTweens,   \* the live gsap tweens on controls.target, oldest first
    bokehFocus,     \* bokehPass.uniforms.focus.value (dream scene), 1 fixed-point number
    focusTweens,    \* the live gsap tweens on bokehPass.uniforms.focus, oldest first
    fault,          \* TRUE once a handler has thrown
    clicks,         \* number of click events handled so far
    clicked,        \* the last click: how many hits its ray had, and the tag it resolved to
    sinceClick      \* time since the last click that started a transition (capped)

clickVars == <<scene, controlsTarget, title, description, targetTweens,
               bokehFocus, focusTweens, fault, clicks, clicked, sinceClick>>

VARIABLES
    ventPositions,  \* codeVents.geometry.attributes.position.array (x, y, z per point)
    swarmPosArray,  \* swarmPosArray, the swarm's base positions (x, y, z per point)
    swarmPositions, \* swarm.geometry.attributes.position.array, the live copy
    elapsedTime,    \* clock.getElapsedTime() as sampled by the last animate()
    swarmFrames     \* animate() calls so far (swarm specification)

VARIABLES
    emissiveIntensity, \* material.emissiveIntensity of each tablet (fixed point)
    glowTweens,        \* the live gsap tweens on each tablet's material, oldest first
    hoverNearest,      \* the nearest object on the pointer ray in the last animate(), or "none"
    held,              \* per tablet: whether the ray was on it in the last animate(), and for how long that has lasted (capped)
    hoverFrames,       \* animate() calls so far (hover specification)
    phase,             \* which callback of the display frame runs next: "tick" or "animate"
    deltaTime          \* the interval of the current display frame

hoverVars == <<emissiveIntensity, glowTweens, hoverNearest, held, hoverFrames,
               phase, deltaTime>>

VARIABLES
    pc,             \* dream scene: index in AnimateOrder of the section animate() runs next
    frameLog,       \* dream scene: the sections animate() has run in the current frame
    dreamDelta,     \* dream scene: clock.getDelta() of the current frame (sixtieths of a second)
    dreamElapsed,   \* dream scene: clock.getElapsedTime() of the current frame
    dreamFrames,    \* dream scene: animate() calls begun so far
    bodies,         \* the CANNON bodies of objectsToUpdate: position, velocity, force, quaternion, angularVelocity, torque
    meshes,         \* the meshes of objectsToUpdate: position, quaternion
    shaderReady,    \* heartMaterial.userData.shader has been captured
    uTime,          \* heartMaterial.userData.shader.uniforms.uTime.value
    riverRotation   \* particleMesh.rotation.y, in hundredths of elapsed time units

dreamVars == <<pc, frameLog, dreamDelta, dreamElapsed, dreamFrames, bodies,
               meshes, shaderReady, uTime, riverRotation>>

VARIABLES
    framePc,        \* abyss scene: index in FrameOrder of the section animate() runs next
    frameSections,  \* abyss scene: the sections animate() has run in the current frame
    abyssFrames,    \* abyss scene: animate() calls begun so far
    jellyfishShader,\* jellyfishMaterial.userData.shader: whether it is set, and its uniforms.uTime.value
    skippedWrites,  \* abyss scene: frames so far whose shader time write was skipped
    causticsOffset, \* causticsLight.map.offset (both components), thousandths
    jellyfishY,     \* jellyfish.position.y and coreLight.position.y, thousandths
    coreIntensity   \* coreLight.intensity, thousandths

frameVars == <<framePc, frameSections, abyssFrames, jellyfishShader,
               skippedWrites, causticsOffset, jellyfishY, coreIntensity>>

ventVars == <<ventPositions>>

swarmVars == <<swarmPosArray, swarmPositions, elapsedTime, swarmFrames>>

vars == <<clickVars, ventVars, swarmVars, hoverVars, dreamVars, frameVars>>

\* the state the click listener and the ticker of the click specification leave alone
notClickVars == <<ventVars, swarmVars, hoverVars, dreamVars, frameVars>>

notVentVars == <<clickVars, swarmVars, hoverVars, dreamVars, frameVars>>

notSwarmVars == <<clickVars, ventVars, hoverVars, dreamVars, frameVars>>

notHoverVars == <<clickVars, ventVars, swarmVars, dreamVars, frameVars>>

notDreamVars == <<clickVars, ventVars, swarmVars, hoverVars, frameVars>>

-----------------------------------------------------------------------------
(* Bounds of the model *)

\* clicks handled in one behaviour
MaxClicks == 2
\* intersections the raycaster reports for one ray
MaxHits == 2
\* spires registered by the dream scene (the script registers 50)
NumSpires == 1
\* points of the vent stream (the script has 2000)
NumVentPoints == 2
\* the longest frame interval of the vent specification, in sixteenths of a second
MaxVentDelta == 330
\* points of the swarm (the script has 3000)
NumSwarmPoints == 2
\* the longest run of the swarm specification, in half seconds
MaxSwarmSteps == 4
\* animate() calls of the hover specification
MaxHoverFrames == 4
\* animate() calls of the dream-frame specification
MaxDreamFrames == 2
\* animate() calls of the abyss-frame specification
MaxAbyssFrames == 3

-----------------------------------------------------------------------------
(* Arithmetic *)

Scale == 10^6

Min(a, b) == IF a < b THEN a ELSE b

\* round(c * n / d) for 0 <= n <= d, rounding halves up as Math.round does;
\* split so that no intermediate product leaves 32 bits
MulDivRound(c, n, d) ==
    LET q == c \div d
        r == c % d
    IN  q * n + ((2 * r * n + d) \div (2 * d))

Scaled(v) == [i \in 1..Len(v) |-> v[i] * Scale]

\* the buffer layout of a particle field: x, y, z of point 1, then of point 2, ...
Interleaved(pts) ==
    [i \in 1..(3 * Len(pts)) |-> pts[((i - 1) \div 3) + 1][((i - 1) % 3) + 1]]

-----------------------------------------------------------------------------
(* Scene registry: interactiveObjects and focusPoints *)

Scenes == {"abyss", "dream"}

NumPhotos == 3

Obj(name, kind, idx) == [name |-> name, kind |-> kind, idx |-> idx]

AbyssObjects ==
    <<Obj("graphics", "jellyfish", 0)>>
    \o [i \in 1..NumPhotos |-> Obj("photography", "tablet", i - 1)]
    \o <<Obj("programming", "codeVents", 0), Obj("eating", "swarm", 0)>>

DreamObjects ==
    <<Obj("graphics", "heart", 0)>>
    \o [i \in 1..NumPhotos |-> Obj("photography", "pane", i - 1)]
    \o [i \in 1..NumSpires |-> Obj("programming", "spire", i - 1)]
    \o <<Obj("eating", "particleMesh", 0)>>

interactiveObjects(s) == IF s = "abyss" THEN AbyssObjects ELSE DreamObjects

AbyssFocusPoints ==
    [graphics |->
        [position |-> <<0, 5, 10>>, title |-> "The Anomaly.",
         description |-> "The heart of the abyss."],
     photography |->
        [position |-> <<-15, 2, 10>>, title |-> "Lost Signals.",
         description |-> "Fossilized light, imprinted on stone."],
     programming |->
        [position |-> <<15, 5, -5>>, title |-> "Geysers of Logic.",
         description |-> "Structure, bubbling up from the chaos."],
     eating |->
        [position |-> <<-20, 8, -15>>, title |-> "The Swarm.",
         description |-> "The energy."]]

DreamFocusPoints ==
    [graphics |->
        [position |-> <<0, 2, 7>>, title |-> "The Heart.",
         description |-> "Everything starts here."],
     photography |->
        [position |-> <<10, 2, -5>>, title |-> "Frozen Moments.",
         description |-> "Memories trapped in glass, drifting through the subconscious."],
     programming |->
        [position |-> <<-18, 4, -15>>, title |-> "The Spires of Logic.",
         description |-> "Order rising from chaos."],
     eating |->
        [position |-> <<0, -10, 0>>, title |-> "The River of Life.",
         description |-> "The fuel."]]

focusPoints(s) == IF s = "abyss" THEN AbyssFocusPoints ELSE DreamFocusPoints

\* controls.target.set(0, 2, 0)
InitialTarget == <<0, 2, 0>>

\* focus: 15.0 of the BokehPass
InitialFocus == <<15>>

\* what the page shows before any click (the HTML is not part of the scripts)
PageTitle == "(page title)"
PageDescription == "(page description)"

-----------------------------------------------------------------------------
(* gsap.to: tweens *)

AbyssDuration == 25
DreamDuration == 20

TargetDuration(s) == IF s = "abyss" THEN AbyssDuration ELSE DreamDuration

\* ease 'power3.inOut' at time t of dur, as a fraction <<n, d>>
Power3InOut(t, dur) ==
    IF 2 * t < dur
    THEN <<4 * t * t * t, dur * dur * dur>>
    ELSE <<dur * dur * dur - 4 * (dur - t) * (dur - t) * (dur - t), dur * dur * dur>>

\* GSAP's default ease 'power1.out'
Power1Out(t, dur) == <<t * (2 * dur - t), dur * dur>>

EaseRatio(ease, t, dur) ==
    IF ease = "power3.inOut" THEN Power3InOut(t, dur) ELSE Power1Out(t, dur)

\* gsap.to(target, {...end, duration, ease}): the tween reads its start value
\* at its first render, not when it is created
NewTween(end, dur, ease, tag) ==
    [end |-> end, start |-> end, init |-> FALSE, t |-> 0, dur |-> dur,
     ease |-> ease, tag |-> tag]

TweenValueNoClamp(tw, start, t) ==
    LET r == EaseRatio(tw.ease, t, tw.dur)
    IN  [i \in 1..Len(start) |->
            start[i] + MulDivRound(tw.end[i] - start[i], r[1], r[2])]

\* the value a tween writes at time t (clamped at its duration)
TweenValue(tw, start, t) ==
    LET tt == Min(t, tw.dur)
        r == EaseRatio(tw.ease, tt, tw.dur)
    IN  [i \in 1..Len(start) |->
            start[i] + MulDivRound(tw.end[i] - start[i], r[1], r[2])]

\* One tick of GSAP's ticker over the tweens of one property, dt later: the
\* tweens render oldest first, each writing the property; a tween at its first
\* render takes the property's current value as its start; a tween that has
\* reached its duration writes its end value and leaves the timeline.
\* Returns <<the tweens still live, the property's value>>.
RECURSIVE RenderTweens(_, _, _)
RenderTweens(tws, cur, dt) ==
    IF tws = <<>> THEN <<(<<>>), cur>>
    ELSE LET tw == Head(tws)
             t2 == tw.t + dt
             s == IF tw.init THEN tw.start ELSE cur
             v == TweenValue(tw, s, t2)
             rest == RenderTweens(Tail(tws), v, dt)
             kept == IF t2 >= tw.dur THEN <<>>
                     ELSE <<[tw EXCEPT !.t = t2, !.start = s, !.init = TRUE]>>
         IN  <<kept \o rest[1], rest[2]>>

-----------------------------------------------------------------------------
(* The click listener *)

\* raycaster.intersectObjects(interactiveObjects): the hits, nearest first
HitLists(s) ==
    LET objs == {interactiveObjects(s)[i] : i \in 1..Len(interactiveObjects(s))}
    IN  UNION {[1..n -> objs] : n \in 0..MaxHits}

\* controls.target.distanceTo(camera.position): OrbitControls keeps it
\* between minDistance and maxDistance
CamDists == {5, 50}

FocusTagUnguarded(s, intersects) ==
    IF Len(intersects) = 0 THEN "TypeError"
    ELSE IF intersects[1].name \in DOMAIN focusPoints(s)
         THEN intersects[1].name
         ELSE "none"

\* focusPoints[intersects[0].object.name], behind the two guards of the
\* listener: the tag of the nearest hit when it has a FocusPoint, "none" when
\* the ray hit nothing or the tag has no FocusPoint.  ("TypeError" is what
\* reading intersects[0].object of an empty list would raise.)
FocusTag(s, intersects) ==
    IF Len(intersects) > 0
    THEN IF intersects[1].name \in DOMAIN focusPoints(s)
         THEN intersects[1].name
         ELSE "none"
    ELSE "none"

StartTransitionIfIdle(tws, tw) == IF tws = <<>> THEN Append(tws, tw) ELSE tws

\* gsap.to(object, vars): the new tween joins GSAP's timeline behind the
\* live ones (GSAP 3 does not overwrite tweens of the same property)
StartTransition(tws, tw) == Append(tws, tw)

InfoTextStale(focusData, shown) == shown

\* the two textContent assignments: <<title, description>>
InfoText(focusData, shown) == <<focusData.title, focusData.description>>

Click(intersects, camDist) ==
    /\ clicks < MaxClicks
    /\ clicks' = clicks + 1
    /\ LET tag == FocusTag(scene, intersects)
       IN  /\ clicked' = [hits |-> Len(intersects), tag |-> tag]
           /\ fault' = (fault \/ tag = "TypeError")
           /\ IF tag \notin {"none", "TypeError"}
              THEN LET focusData == focusPoints(scene)[tag]
                       text == InfoText(focusData, <<title, description>>)
                   IN  /\ targetTweens' = StartTransition(targetTweens,
                               NewTween(Scaled(focusData.position),
                                        TargetDuration(scene), "power3.inOut", tag))
                       /\ focusTweens' =
                            IF scene = "dream"
                            THEN StartTransition(focusTweens,
                                   NewTween(Scaled(<<camDist - 3>>), DreamDuration,
                                            "power3.inOut", tag))
                            ELSE focusTweens
                       /\ title' = text[1]
                       /\ description' = text[2]
                       /\ sinceClick' = 0
              ELSE UNCHANGED <<targetTweens, focusTweens, title, description,
                               sinceClick>>
    /\ UNCHANGED <<scene, controlsTarget, bokehFocus>>
    /\ UNCHANGED notClickVars

-----------------------------------------------------------------------------
(* GSAP's ticker *)

\* the frame intervals the model draws (tenths of a second)
ClickDts == {5, 10}

GsapTick(dt) ==
    /\ LET r == RenderTweens(targetTweens, controlsTarget, dt)
       IN  /\ targetTweens' = r[1]
           /\ controlsTarget' = r[2]
    /\ LET f == RenderTweens(focusTweens, bokehFocus, dt)
       IN  /\ focusTweens' = f[1]
           /\ bokehFocus' = f[2]
    /\ sinceClick' = Min(sinceClick + dt, TargetDuration(scene))
    /\ UNCHANGED <<scene, title, description, fault, clicks, clicked>>
    /\ UNCHANGED notClickVars

-----------------------------------------------------------------------------
(* The click specification: clicks and ticker frames of either scene *)

ClickIdle ==
    /\ scene = "abyss"
    /\ controlsTarget = Scaled(InitialTarget)
    /\ title = PageTitle
    /\ description = PageDescription
    /\ targetTweens = <<>>
    /\ bokehFocus = Scaled(InitialFocus)
    /\ focusTweens = <<>>
    /\ fault = FALSE
    /\ clicks = 0
    /\ clicked = [hits |-> 0, tag |-> "none"]
    /\ sinceClick = AbyssDuration

VentIdle == ventPositions = <<>>

SwarmIdle ==
    /\ swarmPosArray = <<>>
    /\ swarmPositions = <<>>
    /\ elapsedTime = 0
    /\ swarmFrames = 0

HoverIdle ==
    /\ emissiveIntensity = <<>>
    /\ glowTweens = <<>>
    /\ hoverNearest = "none"
    /\ held = <<>>
    /\ hoverFrames = 0
    /\ phase = "tick"
    /\ deltaTime = 0

DreamIdle ==
    /\ pc = 1
    /\ frameLog = <<>>
    /\ dreamDelta = 0
    /\ dreamElapsed = 0
    /\ dreamFrames = 0
    /\ bodies = <<>>
    /\ meshes = <<>>
    /\ shaderReady = FALSE
    /\ uTime = 0
    /\ riverRotation = 0

FrameIdle ==
    /\ framePc = 1
    /\ frameSections = <<>>
    /\ abyssFrames = 0
    /\ jellyfishShader = [captured |-> FALSE, uTime |-> 0]
    /\ skippedWrites = 0
    /\ causticsOffset = 0
    /\ jellyfishY = 0
    /\ coreIntensity = 0

ClickInit ==
    /\ VentIdle /\ SwarmIdle /\ HoverIdle /\ DreamIdle /\ FrameIdle
    /\ scene \in Scenes
    /\ controlsTarget = Scaled(InitialTarget)
    /\ title = PageTitle
    /\ description = PageDescription
    /\ targetTweens = <<>>
    /\ bokehFocus = Scaled(InitialFocus)
    /\ focusTweens = <<>>
    /\ fault = FALSE
    /\ clicks = 0
    /\ clicked = [hits |-> 0, tag |-> "none"]
    /\ sinceClick = TargetDuration(scene)

\* the abyss listener does not read the camera distance
ClickStep ==
    \E h \in HitLists(scene) :
        \E d \in (IF scene = "dream" THEN CamDists ELSE {0}) : Click(h, d)

TickStep == \E dt \in ClickDts : GsapTick(dt)

ClickNext == ClickStep \/ TickStep

ClickSpec == ClickInit /\ [][ClickNext]_vars

-----------------------------------------------------------------------------
(* Claims about the click listener and the camera transition *)

\* the tag whose FocusPoint carries the title now shown ("none" before any)
ShownTag ==
    IF \E g \in DOMAIN focusPoints(scene) : focusPoints(scene)[g].title = title
    THEN CHOOSE g \in DOMAIN focusPoints(scene) : focusPoints(scene)[g].title = title
    ELSE "none"

Transitioning == targetTweens # <<>>

Newest(tws) == tws[Len(tws)]

C2_TextSetWithTransitionStart ==
    Transitioning =>
        /\ title = focusPoints(scene)[Newest(targetTweens).tag].title
        /\ description = focusPoints(scene)[Newest(targetTweens).tag].description

\* C2 witness: the newest transition has not rendered once yet, an older one
\* toward another topic is still live, and the text is already the newest's.
C2_Witness ==
    /\ Len(targetTweens) = 2
    /\ ~Newest(targetTweens).init
    /\ targetTweens[1].tag # targetTweens[2].tag
    /\ title = focusPoints(scene)[targetTweens[2].tag].title

\* C3: the transition runs for exactly its configured duration after the last
\* click that started one, whatever the distance: before that the driver is
\* Transitioning, from then on it is Idle and the camera target is exactly the
\* FocusPoint's position.
C3_TransitionEndsAtDuration ==
    /\ sinceClick < TargetDuration(scene) => Transitioning
    /\ (sinceClick >= TargetDuration(scene) /\ title # PageTitle) =>
          /\ ~Transitioning
          /\ controlsTarget = Scaled(focusPoints(scene)[ShownTag].position)

\* C3 witness: a transition from one FocusPoint to another has run its
\* duration (the last frame overshooting it) and sits on the end value.
C3_Witness ==
    /\ clicks = 2
    /\ sinceClick = TargetDuration(scene)
    /\ ~Transitioning
    /\ title # PageTitle
    /\ controlsTarget = Scaled(focusPoints(scene)[ShownTag].position)
    /\ controlsTarget # Scaled(InitialTarget)

\* C4: last click wins.  A click on a known FocusPoint is accepted whether or
\* not a transition is in flight: it starts a transition and sets the text.
\* After every ticker frame the camera target is the value of the most
\* recently started transition, and when no transition is left it is the
\* position of the last clicked FocusPoint, whose text is shown.
C4_LastClickWins ==
    [][/\ (clicks' = clicks + 1 /\ clicked'.tag \in DOMAIN focusPoints(scene)) =>
             /\ Len(targetTweens') = Len(targetTweens) + 1
             /\ Newest(targetTweens').tag = clicked'.tag
             /\ title' = focusPoints(scene)[clicked'.tag].title
             /\ description' = focusPoints(scene)[clicked'.tag].description
       /\ (targetTweens' # <<>> /\ Newest(targetTweens').init) =>
             controlsTarget' = TweenValue(Newest(targetTweens'),
                                          Newest(targetTweens').start,
                                          Newest(targetTweens').t)
       /\ (title' # title \/ description' # description) => clicks' = clicks + 1
       /\ (targetTweens' = <<>> /\ title' # PageTitle) =>
             controlsTarget' = Scaled(focusPoints(scene)[ShownTag'].position)]_vars

\* C4 witness: two transitions toward different FocusPoints are in flight and
\* the camera target follows the later one, not the earlier.
C4_Witness ==
    /\ Len(targetTweens) = 2
    /\ targetTweens[1].tag # targetTweens[2].tag
    /\ targetTweens[1].init /\ targetTweens[2].init
    /\ controlsTarget = TweenValue(targetTweens[2], targetTweens[2].start,
                                   targetTweens[2].t)
    /\ controlsTarget # TweenValue(targetTweens[1], targetTweens[1].start,
                                   targetTweens[1].t)

-----------------------------------------------------------------------------
(* Hover glow of the tablets (abyss scene) *)

HoverDuration == 10

\* emissiveIntensity: isHovered ? 0.7 : 0
HoveredGlow == <<(7 * Scale) \div 10>>

UnhoveredGlow == <<0>>

Tablet(i) == Obj("photography", "tablet", i - 1)

\* intersectedNames.includes(child): the tablet is anywhere among the hits
IsHovered(intersects, child) ==
    \E k \in 1..Len(intersects) : intersects[k] = child

\* the frame intervals of the hover specification (tenths of a second)
HoverDts == {4, 5}

\* GSAP's ticker callback of a display frame
HoverTick(dt) ==
    /\ phase = "tick"
    /\ hoverFrames < MaxHoverFrames
    /\ phase' = "animate"
    /\ deltaTime' = dt
    /\ emissiveIntensity' =
         [i \in 1..NumPhotos |->
            RenderTweens(glowTweens[i], emissiveIntensity[i], dt)[2]]
    /\ glowTweens' =
         [i \in 1..NumPhotos |->
            RenderTweens(glowTweens[i], emissiveIntensity[i], dt)[1]]
    /\ UNCHANGED <<hoverNearest, held, hoverFrames>>
    /\ UNCHANGED notHoverVars

\* the hover section of animate(): one gsap.to per tablet, every frame
HoverAnimate(intersects) ==
    /\ phase = "animate"
    /\ phase' = "tick"
    /\ hoverFrames' = hoverFrames + 1
    /\ hoverNearest' = IF Len(intersects) > 0 THEN intersects[1] ELSE "none"
    /\ glowTweens' =
         [i \in 1..NumPhotos |->
            StartTransition(glowTweens[i],
                NewTween(IF IsHovered(intersects, Tablet(i))
                         THEN HoveredGlow ELSE UnhoveredGlow,
                         HoverDuration, "power1.out", "photography"))]
    /\ held' =
         [i \in 1..NumPhotos |->
            LET on == IsHovered(intersects, Tablet(i))
            IN  IF hoverFrames > 0 /\ held[i].on = on
                THEN [on |-> on, time |-> Min(held[i].time + deltaTime, HoverDuration)]
                ELSE [on |-> on, time |-> 0]]
    /\ UNCHANGED <<emissiveIntensity, deltaTime>>
    /\ UNCHANGED notHoverVars

\* emissiveIntensity: 0 of every tablet's material
HoverInit ==
    /\ ClickIdle /\ VentIdle /\ SwarmIdle /\ DreamIdle /\ FrameIdle
    /\ emissiveIntensity = [i \in 1..NumPhotos |-> UnhoveredGlow]
    /\ glowTweens = [i \in 1..NumPhotos |-> <<>>]
    /\ hoverNearest = "none"
    /\ held = [i \in 1..NumPhotos |-> [on |-> FALSE, time |-> 0]]
    /\ hoverFrames = 0
    /\ phase = "tick"
    /\ deltaTime = 0

HoverTickStep == \E dt \in HoverDts : HoverTick(dt)

HoverAnimateStep == \E h \in HitLists("abyss") : HoverAnimate(h)

HoverNext == HoverTickStep \/ HoverAnimateStep

HoverSpec == HoverInit /\ [][HoverNext]_vars

\* C6: in a frame a tablet is eased toward its hovered glow only if it is the
\* nearest object on the pointer ray.
C6_OnlyNearestGlows ==
    \A i \in 1..NumPhotos :
        (phase = "tick" /\ hoverFrames > 0
            /\ Newest(glowTweens[i]).end = HoveredGlow)
        => hoverNearest = Tablet(i)

\* C7: after the pointer ray has stayed on a tablet for a second of
\* consecutive frames its glow is the hovered value, and after it has stayed
\* off it for a second its glow is the unhovered value.
C7_HoverLaw ==
    \A i \in 1..NumPhotos :
        (phase = "tick" /\ hoverFrames > 0 /\ held[i].time >= HoverDuration)
        => emissiveIntensity[i] = (IF held[i].on THEN HoveredGlow ELSE UnhoveredGlow)

-----------------------------------------------------------------------------
(* The vent stream of the abyss scene *)

(***************************************************************************)
(* The position buffer is a Float32Array; animate() computes in doubles    *)
(* and the store rounds to the nearest float.  The model keeps that        *)
(* difference at a reduced precision: doubles are multiples of 1/Fine,     *)
(* floats have the spacing 1/Fine below 8, 2/Fine in [8, 16) and 4/Fine in *)
(* [16, 32), as a binary float's spacing doubles with each power of two.   *)
(***************************************************************************)
Fine == 2^3

VentCeiling == 20

VentSpeed == 2

\* the spacing of the floats around x
Ulp(x) == IF x < 8 * Fine THEN 1 ELSE IF x < 16 * Fine THEN 2 ELSE 4

\* the Float32Array store: round to nearest, ties to even
F32(x) ==
    LET step == Ulp(x)
        lower == (x \div step) * step
        rem == x - lower
    IN  IF 2 * rem < step THEN lower
        ELSE IF 2 * rem > step THEN lower + step
        ELSE IF (lower \div step) % 2 = 0 THEN lower ELSE lower + step

\* ventPosArray: x and z are (Math.random() - 0.5) * 0.2, y is
\* Math.random() * 20, each stored into the Float32Array
VentInitialBuffers ==
    LET xz == {F32(0)}
        ys == {F32(r) : r \in 0..(VentCeiling * Fine - 1)}
    IN  {Interleaved(pts) : pts \in [1..NumVentPoints -> xz \X ys \X xz]}

\* the forEach over the vent buffer; dt is deltaTime in sixteenths of a
\* second, so that deltaTime * 2 is dt * VentSpeed / 2 eighths
AnimateVents(arr, dt) ==
    [i \in 1..Len(arr) |->
        IF (i - 1) % 3 = 1
        THEN F32((arr[i] + (dt * VentSpeed * Fine) \div 16) % (VentCeiling * Fine))
        ELSE arr[i]]

VentFrame(dt) ==
    /\ ventPositions' = AnimateVents(ventPositions, dt)
    /\ UNCHANGED notVentVars

VentInit ==
    /\ ClickIdle /\ SwarmIdle /\ HoverIdle /\ DreamIdle /\ FrameIdle
    /\ ventPositions \in VentInitialBuffers

VentNext == \E dt \in 0..MaxVentDelta : VentFrame(dt)

VentSpec == VentInit /\ [][VentNext]_vars

VentInRange(arr) ==
    \A i \in 1..Len(arr) :
        (i - 1) % 3 = 1 => (0 <= arr[i] /\ arr[i] < VentCeiling * Fine)

\* C5: a frame update of the vent stream takes a buffer whose every y is in
\* [0, ceiling) to a buffer whose every y is in [0, ceiling), for every
\* dt >= 0.
C5_VentStaysBelowCeiling ==
    [][VentInRange(ventPositions) => VentInRange(ventPositions')]_vars

-----------------------------------------------------------------------------
(* The swarm of the abyss scene *)

(***************************************************************************)
(* Lengths, times and angles of the swarm are in thousandths (of a unit,   *)
(* a second, a radian); elapsed times and base coordinates are multiples   *)
(* of 500, and the sine and cosine are tabulated at those angles.          *)
(***************************************************************************)
SinTable == <<479, 841, 997, 909, 598, 141, -351, -757, -978, -959, -706, -279, 215>>

CosTable == <<878, 540, 71, -416, -801, -990, -936, -654, -211, 284, 709, 960, 977>>

\* 1000 * Math.sin(a / 1000)
Sin(a) ==
    LET k == a \div 500
    IN  IF k = 0 THEN 0 ELSE IF k > 0 THEN SinTable[k] ELSE 0 - SinTable[0 - k]

\* 1000 * Math.cos(a / 1000)
Cos(a) ==
    LET k == a \div 500
    IN  IF k = 0 THEN 1000 ELSE IF k > 0 THEN CosTable[k] ELSE CosTable[0 - k]

SwarmAmplitude == 2

\* base coordinates drawn for the swarm: x and z from (Math.random() - 0.5) * 30,
\* y from Math.random() * 15
SwarmXZ == {-1000, 1500}

SwarmY == {500, 1500}

SwarmBaseBuffers ==
    {Interleaved(pts) : pts \in [1..NumSwarmPoints -> SwarmXZ \X SwarmY \X SwarmXZ]}

AnimateSwarmAccumulating(arr, base, t) ==
    [i \in 1..Len(arr) |->
        LET axis == (i - 1) % 3
            basePos == arr[i]
        IN  IF axis = 0 THEN basePos + Sin(t + base[i]) * SwarmAmplitude
            ELSE IF axis = 1 THEN basePos + Cos(t + base[i]) * SwarmAmplitude
            ELSE arr[i]]

AnimateSwarmXZ(arr, base, t) ==
    [i \in 1..Len(arr) |->
        LET axis == (i - 1) % 3
            basePos == base[i]
        IN  IF axis = 0 THEN basePos + Sin(t + basePos) * SwarmAmplitude
            ELSE IF axis = 2 THEN basePos + Cos(t + basePos) * SwarmAmplitude
            ELSE arr[i]]

\* the forEach over the swarm buffer: axis 0 and axis 1 are rewritten from
\* the base position, axis 2 is not written
AnimateSwarm(arr, base, t) ==
    [i \in 1..Len(arr) |->
        LET axis == (i - 1) % 3
            basePos == base[i]
        IN  IF axis = 0 THEN basePos + Sin(t + basePos) * SwarmAmplitude
            ELSE IF axis = 1 THEN basePos + Cos(t + basePos) * SwarmAmplitude
            ELSE arr[i]]

\* the frame intervals of the swarm specification (a frame may see no time pass)
SwarmDts == {0, 500, 1000}

SwarmFrame(dt) ==
    /\ elapsedTime + dt <= 500 * MaxSwarmSteps
    /\ swarmFrames < 2 * MaxSwarmSteps
    /\ elapsedTime' = elapsedTime + dt
    /\ swarmFrames' = swarmFrames + 1
    /\ swarmPositions' = AnimateSwarm(swarmPositions, swarmPosArray, elapsedTime')
    /\ UNCHANGED swarmPosArray
    /\ UNCHANGED notSwarmVars

\* new THREE.Float32BufferAttribute(swarmPosArray, 3) copies the array
SwarmInit ==
    /\ ClickIdle /\ VentIdle /\ HoverIdle /\ DreamIdle /\ FrameIdle
    /\ swarmPosArray \in SwarmBaseBuffers
    /\ swarmPositions = swarmPosArray
    /\ elapsedTime = 0
    /\ swarmFrames = 0

SwarmNext == \E dt \in SwarmDts : SwarmFrame(dt)

SwarmSpec == SwarmInit /\ [][SwarmNext]_vars

\* C8: the swarm update is a stateless map.  The base buffer is never
\* written; the live buffer a frame produces is the one a frame at the same
\* elapsed time produces from a pristine copy of the base buffer, whatever
\* the live buffer held before; a second frame at the same elapsed time
\* reproduces the buffer.
C8_SwarmUpdateIsStateless ==
    [][/\ swarmPosArray' = swarmPosArray
       /\ swarmPositions' = AnimateSwarm(swarmPosArray, swarmPosArray, elapsedTime')
       /\ (swarmFrames > 0 /\ elapsedTime' = elapsedTime)
             => swarmPositions' = swarmPositions]_vars

\* C8 witness: several frames in, at a later time, the live buffer has left
\* the base positions and is what one frame from the base buffer gives.
C8_Witness ==
    /\ swarmFrames >= 3
    /\ elapsedTime >= 1000
    /\ swarmPositions # swarmPosArray
    /\ swarmPositions = AnimateSwarm(swarmPosArray, swarmPosArray, elapsedTime)

\* C9 as stated: after a frame every point has x = base_x + A sin(t + base_x),
\* z = base_z + A cos(t + base_z) and y = base_y.
C9_SwarmMovesXZ ==
    swarmFrames > 0 =>
        \A p \in 0..(NumSwarmPoints - 1) :
            /\ swarmPositions[3 * p + 1] =
                 swarmPosArray[3 * p + 1]
                 + SwarmAmplitude * Sin(elapsedTime + swarmPosArray[3 * p + 1])
            /\ swarmPositions[3 * p + 3] =
                 swarmPosArray[3 * p + 3]
                 + SwarmAmplitude * Cos(elapsedTime + swarmPosArray[3 * p + 3])
            /\ swarmPositions[3 * p + 2] = swarmPosArray[3 * p + 2]

\* C9 amended: after a frame every point has x = base_x + A sin(t + base_x),
\* y = base_y + A cos(t + base_y), and z equal to its base z.
C9_SwarmMovesXY ==
    swarmFrames > 0 =>
        \A p \in 0..(NumSwarmPoints - 1) :
            /\ swarmPositions[3 * p + 1] =
                 swarmPosArray[3 * p + 1]
                 + SwarmAmplitude * Sin(elapsedTime + swarmPosArray[3 * p + 1])
            /\ swarmPositions[3 * p + 2] =
                 swarmPosArray[3 * p + 2]
                 + SwarmAmplitude * Cos(elapsedTime + swarmPosArray[3 * p + 2])
            /\ swarmPositions[3 * p + 3] = swarmPosArray[3 * p + 3]

\* C9 witness: after a frame at a later time a point's x and y have both left
\* their base values while its z has not.
C9_Witness ==
    /\ swarmFrames > 0
    /\ elapsedTime > 0
    /\ swarmPositions[1] # swarmPosArray[1]
    /\ swarmPositions[2] # swarmPosArray[2]
    /\ swarmPositions[3] = swarmPosArray[3]
    /\ swarmPosArray[3] # 0

-----------------------------------------------------------------------------
(* animate() of the dream scene: physics, pose sync, shader time, drift *)

(***************************************************************************)
(* Times are in sixtieths of a second, the fixed step of the physics       *)
(* world.  Of each body one axis is carried: position, velocity and force  *)
(* along it, and the rotation about it (quaternion, angularVelocity,       *)
(* torque); cannon-es integrates the axes independently and the drift      *)
(* draws each component independently.  Masses and inertias are 1.         *)
(***************************************************************************)

AnimateOrderForceFirst ==
    <<"clock", "step", "force", "sync", "shader", "river", "controls", "render">>

\* the sections of animate(), in the order of the function body
AnimateOrder ==
    <<"clock", "step", "sync", "shader", "river", "force", "controls", "render">>

Section == AnimateOrder[pc]

\* the section just run joins the frame's log, and the next one is due
Advance(name) ==
    /\ Section = name
    /\ pc' = (pc % Len(AnimateOrder)) + 1
    /\ frameLog' = IF name = "clock" THEN <<name>> ELSE Append(frameLog, name)

MaxSubSteps == 3

\* body.integrate of one fixed step, and world.clearForces() after it
IntegrateBody(b) ==
    LET v == b.velocity + b.force
        w == b.angularVelocity + b.torque
    IN  [position |-> b.position + v, velocity |-> v, force |-> 0,
         quaternion |-> b.quaternion + w, angularVelocity |-> w, torque |-> 0]

RECURSIVE SubSteps(_, _)
SubSteps(bs, n) ==
    IF n = 0 THEN bs
    ELSE SubSteps([i \in 1..Len(bs) |-> IntegrateBody(bs[i])], n - 1)

\* physicsWorld.step(1 / 60, deltaTime, 3): as many fixed steps as deltaTime
\* holds, at most maxSubSteps
WorldStep(bs, dt) == SubSteps(bs, Min(dt, MaxSubSteps))

\* body.applyForce(force, body.position): the force adds to the body's
\* accumulated force and, through its point of application, to its torque
ApplyForce(b, f) ==
    [b EXCEPT !.force = b.force + f, !.torque = b.torque + b.position * f]

\* the frame intervals of the dream-frame specification
DreamDts == {0, 1, 4}

\* the drift component (Math.random() - 0.5) * 0.1, by its sign
DriftForces == {-1, 1}

\* const deltaTime = clock.getDelta(); const elapsedTime = clock.getElapsedTime()
SampleClock(dt) ==
    /\ Advance("clock")
    /\ dreamFrames < MaxDreamFrames
    /\ dreamFrames' = dreamFrames + 1
    /\ dreamDelta' = dt
    /\ dreamElapsed' = dreamElapsed + dt
    /\ UNCHANGED <<bodies, meshes, shaderReady, uTime, riverRotation>>
    /\ UNCHANGED notDreamVars

PhysicsStep ==
    /\ Advance("step")
    /\ bodies' = WorldStep(bodies, dreamDelta)
    /\ UNCHANGED <<dreamDelta, dreamElapsed, dreamFrames, meshes, shaderReady,
                   uTime, riverRotation>>
    /\ UNCHANGED notDreamVars

\* obj.mesh.position.copy(obj.body.position); obj.mesh.quaternion.copy(...)
PoseSync ==
    /\ Advance("sync")
    /\ meshes' = [i \in 1..Len(bodies) |->
                    [position |-> bodies[i].position,
                     quaternion |-> bodies[i].quaternion]]
    /\ UNCHANGED <<dreamDelta, dreamElapsed, dreamFrames, bodies, shaderReady,
                   uTime, riverRotation>>
    /\ UNCHANGED notDreamVars

\* if (heartMaterial.userData.shader) ...uniforms.uTime.value = elapsedTime
ShaderTimeWrite ==
    /\ Advance("shader")
    /\ uTime' = IF shaderReady THEN dreamElapsed ELSE uTime
    /\ UNCHANGED <<dreamDelta, dreamElapsed, dreamFrames, bodies, meshes,
                   shaderReady, riverRotation>>
    /\ UNCHANGED notDreamVars

\* particleMesh.rotation.y = elapsedTime * 0.05
RiverRotation ==
    /\ Advance("river")
    /\ riverRotation' = dreamElapsed * 5
    /\ UNCHANGED <<dreamDelta, dreamElapsed, dreamFrames, bodies, meshes,
                   shaderReady, uTime>>
    /\ UNCHANGED notDreamVars

DriftForce(fs) ==
    /\ Advance("force")
    /\ bodies' = [i \in 1..Len(bodies) |-> ApplyForce(bodies[i], fs[i])]
    /\ UNCHANGED <<dreamDelta, dreamElapsed, dreamFrames, meshes, shaderReady,
                   uTime, riverRotation>>
    /\ UNCHANGED notDreamVars

\* controls.update(): with panning disabled it leaves controls.target alone
ControlsUpdate ==
    /\ Advance("controls")
    /\ UNCHANGED <<dreamDelta, dreamElapsed, dreamFrames, bodies, meshes,
                   shaderReady, uTime, riverRotation>>
    /\ UNCHANGED notDreamVars

\* composer.render(); requestAnimationFrame(animate).  The renderer compiles
\* the heart's material the first time it draws it, and onBeforeCompile then
\* stores the shader with uTime = { value: 0 }.
Render(compiles) ==
    /\ Advance("render")
    /\ shaderReady' = (shaderReady \/ compiles)
    /\ uTime' = IF ~shaderReady /\ compiles THEN 0 ELSE uTime
    /\ UNCHANGED <<dreamDelta, dreamElapsed, dreamFrames, bodies, meshes,
                   riverRotation>>
    /\ UNCHANGED notDreamVars

\* the panes: body.position.set(cos(angle) * 10, i * 2, sin(angle) * 10), of
\* which the model carries the y axis; the meshes are created at the origin
DreamInit ==
    /\ ClickIdle /\ VentIdle /\ SwarmIdle /\ HoverIdle /\ FrameIdle
    /\ pc = 1
    /\ frameLog = <<>>
    /\ dreamDelta = 0
    /\ dreamElapsed = 0
    /\ dreamFrames = 0
    /\ bodies = [i \in 1..NumPhotos |->
                    [position |-> (i - 1) * 2, velocity |-> 0, force |-> 0,
                     quaternion |-> 0, angularVelocity |-> 0, torque |-> 0]]
    /\ meshes = [i \in 1..NumPhotos |-> [position |-> 0, quaternion |-> 0]]
    /\ shaderReady = FALSE
    /\ uTime = 0
    /\ riverRotation = 0

DreamNext ==
    \/ \E dt \in DreamDts : SampleClock(dt)
    \/ PhysicsStep
    \/ PoseSync
    \/ ShaderTimeWrite
    \/ RiverRotation
    \/ \E fs \in [1..NumPhotos -> DriftForces] : DriftForce(fs)
    \/ ControlsUpdate
    \/ \E c \in BOOLEAN : Render(c)

DreamSpec == DreamInit /\ [][DreamNext]_vars

\* whether section a has run in the current frame, and before section b if b has run
RanBefore(a, b) ==
    \E i \in 1..Len(frameLog) :
        /\ frameLog[i] = a
        /\ \A j \in 1..i : frameLog[j] # b

Ran(a) == \E i \in 1..Len(frameLog) : frameLog[i] = a

\* C10 as stated: within a frame the integration step comes first, then the
\* drift force, then the pose sync, and all three before the shader time
\* write: a pose is copied only after the frame's drift force was applied.
C10_ForceBeforeSync ==
    /\ Ran("sync") => (RanBefore("step", "force") /\ RanBefore("force", "sync"))
    /\ Ran("shader") => RanBefore("sync", "shader")

\* C10 amended: within a frame the integration step comes first, then the
\* pose sync, then the shader time write, then the river rotation, and only
\* then the drift force.  The pose copied in a frame is the one the step of
\* that frame produced, and the meshes keep it to the end of the frame; the
\* force applied in a frame is still unintegrated when the frame ends, so it
\* moves a body, and its mesh, in a later frame only.
C10_SyncBeforeForce ==
    /\ Ran("sync") => (RanBefore("step", "sync") /\ ~RanBefore("force", "sync"))
    /\ Ran("shader") => (RanBefore("sync", "shader") /\ ~RanBefore("force", "shader"))
    /\ Ran("force") => (RanBefore("shader", "force") /\ RanBefore("river", "force"))
    /\ Ran("sync") =>
          \A i \in 1..NumPhotos :
              /\ meshes[i].position = bodies[i].position
              /\ meshes[i].quaternion = bodies[i].quaternion

\* C10 witness: a second frame has applied its drift force after the sync and
\* the shader write; the meshes show the pose that the first frame's force
\* produced, and the second frame's force is still pending on the bodies.
C10_Witness ==
    /\ dreamFrames = 2
    /\ Ran("force")
    /\ shaderReady /\ uTime = dreamElapsed /\ uTime > 0
    /\ \A i \in 1..NumPhotos :
          /\ bodies[i].force # 0
          /\ meshes[i].position = bodies[i].position
          /\ meshes[i].position # (i - 1) * 2

-----------------------------------------------------------------------------
(* animate() of the abyss scene: shader time, particles, hover, render *)

(***************************************************************************)
(* Times, lengths and angles are in thousandths, as in the swarm part;     *)
(* frame intervals are whole seconds, so that every sine the frame takes   *)
(* is at an angle of the table.  The GSAP ticker is a callback of its own  *)
(* (HoverSpec); this part is animate() alone, so the tweens the hover      *)
(* section creates are recorded and not rendered here.                     *)
(***************************************************************************)

HandleAssumed(shader) == TRUE

\* if (jellyfishMaterial.userData.shader): undefined until onBeforeCompile
\* has stored the shader
HandleAvailable(shader) == shader.captured

\* the sections of animate(), in the order of the function body
FrameOrder ==
    <<"clock", "caustics", "shader", "jellyfish", "vents", "swarm", "hover",
      "controls", "render">>

FrameSection == FrameOrder[framePc]

\* an exception leaves animate() before requestAnimationFrame(animate): no
\* section runs after it, in this frame or later
FrameAdvance(name) ==
    /\ ~fault
    /\ FrameSection = name
    /\ framePc' = (framePc % Len(FrameOrder)) + 1
    /\ frameSections' =
         IF name = "clock" THEN <<name>> ELSE Append(frameSections, name)

\* the frame intervals of the abyss-frame specification
FrameDts == {0, 1000}

\* the latest elapsed time whose sines the table holds
FrameTimeCap == 250 * Len(SinTable)

\* the state no section of animate() writes
frameUntouched ==
    <<scene, controlsTarget, title, description, targetTweens, bokehFocus,
      focusTweens, clicks, clicked, sinceClick, swarmPosArray, swarmFrames,
      emissiveIntensity, held, hoverFrames, phase, dreamVars>>

\* const deltaTime = clock.getDelta(); const elapsedTime = clock.getElapsedTime().
\* The clock starts at the first getDelta(), which returns 0.
FrameClock(dt) ==
    /\ FrameAdvance("clock")
    /\ abyssFrames < MaxAbyssFrames
    /\ abyssFrames = 0 => dt = 0
    /\ elapsedTime + dt <= FrameTimeCap
    /\ abyssFrames' = abyssFrames + 1
    /\ deltaTime' = dt
    /\ elapsedTime' = elapsedTime + dt
    /\ UNCHANGED <<fault, ventPositions, swarmPositions, glowTweens,
                   hoverNearest, jellyfishShader, skippedWrites,
                   causticsOffset, jellyfishY, coreIntensity>>
    /\ UNCHANGED frameUntouched

\* causticsLight.map.offset.set(elapsedTime * 0.1, elapsedTime * 0.1)
FrameCaustics ==
    /\ FrameAdvance("caustics")
    /\ causticsOffset' = elapsedTime \div 10
    /\ UNCHANGED <<fault, ventPositions, swarmPositions, elapsedTime,
                   deltaTime, glowTweens, hoverNearest, abyssFrames,
                   jellyfishShader, skippedWrites, jellyfishY, coreIntensity>>
    /\ UNCHANGED frameUntouched

\* if (jellyfishMaterial.userData.shader)
\*     jellyfishMaterial.userData.shader.uniforms.uTime.value = elapsedTime;
\* reading .uniforms of an undefined shader is a TypeError
FrameShaderWrite ==
    /\ FrameAdvance("shader")
    /\ IF HandleAvailable(jellyfishShader)
       THEN IF jellyfishShader.captured
            THEN /\ jellyfishShader' = [jellyfishShader EXCEPT !.uTime = elapsedTime]
                 /\ UNCHANGED <<fault, skippedWrites>>
            ELSE /\ fault' = TRUE
                 /\ UNCHANGED <<jellyfishShader, skippedWrites>>
       ELSE /\ skippedWrites' = skippedWrites + 1
            /\ UNCHANGED <<fault, jellyfishShader>>
    /\ UNCHANGED <<ventPositions, swarmPositions, elapsedTime, deltaTime,
                   glowTweens, hoverNearest, abyssFrames, causticsOffset,
                   jellyfishY, coreIntensity>>
    /\ UNCHANGED frameUntouched

\* jellyfish.position.y = 5 + Math.sin(elapsedTime * 0.5) * 0.5;
\* coreLight.position.y = jellyfish.position.y;
\* coreLight.intensity = (Math.sin(elapsedTime * 2.0) * 0.5 + 0.5) * 5 + 5
FrameJellyfish ==
    /\ FrameAdvance("jellyfish")
    /\ jellyfishY' = 5000 + Sin(elapsedTime \div 2) \div 2
    /\ coreIntensity' = (Sin(elapsedTime * 2) \div 2 + 500) * 5 + 5000
    /\ UNCHANGED <<fault, ventPositions, swarmPositions, elapsedTime,
                   deltaTime, glowTweens, hoverNearest, abyssFrames,
                   jellyfishShader, skippedWrites, causticsOffset>>
    /\ UNCHANGED frameUntouched

\* the vent forEach; AnimateVents takes deltaTime in sixteenths of a second
FrameVents ==
    /\ FrameAdvance("vents")
    /\ ventPositions' = AnimateVents(ventPositions, (deltaTime * 16) \div 1000)
    /\ UNCHANGED <<fault, swarmPositions, elapsedTime, deltaTime, glowTweens,
                   hoverNearest, abyssFrames, jellyfishShader, skippedWrites,
                   causticsOffset, jellyfishY, coreIntensity>>
    /\ UNCHANGED frameUntouched

\* the swarm forEach
FrameSwarm ==
    /\ FrameAdvance("swarm")
    /\ swarmPositions' = AnimateSwarm(swarmPositions, swarmPosArray, elapsedTime)
    /\ UNCHANGED <<fault, ventPositions, elapsedTime, deltaTime, glowTweens,
                   hoverNearest, abyssFrames, jellyfishShader, skippedWrites,
                   causticsOffset, jellyfishY, coreIntensity>>
    /\ UNCHANGED frameUntouched

\* the pointer rays of the abyss-frame specification: on nothing, or on the
\* first tablet
FrameHits == {<<>>, <<Tablet(1)>>}

\* raycaster.intersectObjects(interactiveObjects) and one gsap.to per tablet
FrameHover(intersects) ==
    /\ FrameAdvance("hover")
    /\ hoverNearest' = IF Len(intersects) > 0 THEN intersects[1] ELSE "none"
    /\ glowTweens' =
         [i \in 1..NumPhotos |->
            StartTransition(glowTweens[i],
                NewTween(IF IsHovered(intersects, Tablet(i))
                         THEN HoveredGlow ELSE UnhoveredGlow,
                         HoverDuration, "power1.out", "photography"))]
    /\ UNCHANGED <<fault, ventPositions, swarmPositions, elapsedTime,
                   deltaTime, abyssFrames, jellyfishShader, skippedWrites,
                   causticsOffset, jellyfishY, coreIntensity>>
    /\ UNCHANGED frameUntouched

\* controls.update(): with panning disabled it leaves controls.target alone
FrameControls ==
    /\ FrameAdvance("controls")
    /\ UNCHANGED <<fault, ventPositions, swarmPositions, elapsedTime,
                   deltaTime, glowTweens, hoverNearest, abyssFrames,
                   jellyfishShader, skippedWrites, causticsOffset, jellyfishY,
                   coreIntensity>>
    /\ UNCHANGED frameUntouched

\* composer.render(); requestAnimationFrame(animate).  The renderer compiles
\* the jellyfish's material the first time it draws the jellyfish (a frame
\* in which the camera sees it), and onBeforeCompile then stores the shader
\* with uTime = { value: 0 }.
FrameRender(compiles) ==
    /\ FrameAdvance("render")
    /\ jellyfishShader' =
         IF ~jellyfishShader.captured /\ compiles
         THEN [captured |-> TRUE, uTime |-> 0]
         ELSE jellyfishShader
    /\ UNCHANGED <<fault, ventPositions, swarmPositions, elapsedTime,
                   deltaTime, glowTweens, hoverNearest, abyssFrames,
                   skippedWrites, causticsOffset, jellyfishY, coreIntensity>>
    /\ UNCHANGED frameUntouched

\* the scene as constructed: jellyfish.position.y = 5, PointLight intensity
\* 10, the tablets dark, the particle buffers as drawn (one draw of each)
FrameInit ==
    /\ ClickIdle /\ DreamIdle
    /\ ventPositions =
         Interleaved([p \in 1..NumVentPoints |-> <<F32(0), F32(p * Fine), F32(0)>>])
    /\ swarmPosArray =
         Interleaved([p \in 1..NumSwarmPoints |-> <<-1000, 500, 1500>>])
    /\ swarmPositions = swarmPosArray
    /\ elapsedTime = 0
    /\ swarmFrames = 0
    /\ emissiveIntensity = [i \in 1..NumPhotos |-> UnhoveredGlow]
    /\ glowTweens = [i \in 1..NumPhotos |-> <<>>]
    /\ hoverNearest = "none"
    /\ held = [i \in 1..NumPhotos |-> [on |-> FALSE, time |-> 0]]
    /\ hoverFrames = 0
    /\ phase = "animate"
    /\ deltaTime = 0
    /\ framePc = 1
    /\ frameSections = <<>>
    /\ abyssFrames = 0
    /\ jellyfishShader = [captured |-> FALSE, uTime |-> 0]
    /\ skippedWrites = 0
    /\ causticsOffset = 0
    /\ jellyfishY = 5000
    /\ coreIntensity = 10000

FrameNext ==
    \/ \E dt \in FrameDts : FrameClock(dt)
    \/ FrameCaustics
    \/ FrameShaderWrite
    \/ FrameJellyfish
    \/ FrameVents
    \/ FrameSwarm
    \/ \E h \in FrameHits : FrameHover(h)
    \/ FrameControls
    \/ \E c \in BOOLEAN : FrameRender(c)

FrameSpec == FrameInit /\ [][FrameNext]_vars

\* C11: shader readiness.  The frame loop never throws.  A frame whose time
\* write finds no shader captured leaves the shader state alone and goes on
\* to the next section, and every frame, skipped write or not, runs all its
\* sections to the render, with the caustics and the swarm at that frame's
\* elapsed-time sample and one more glow tween started for every tablet.  A captured shader stays captured, so the write is
\* tried in every frame and, from the first frame that finds the shader, sets
\* the time uniform to that frame's sample: the uniform has that value at
\* the frame's render, and nothing but the write changes it.  The sample
\* never decreases.
C11_ShaderReadiness ==
    [][/\ fault' = FALSE
       /\ elapsedTime' >= elapsedTime
       /\ jellyfishShader.captured => jellyfishShader'.captured
       /\ FrameSection = "shader" =>
             /\ FrameSection' = "jellyfish"
             /\ IF jellyfishShader.captured
                THEN jellyfishShader'.uTime = elapsedTime
                ELSE jellyfishShader' = jellyfishShader
       /\ (jellyfishShader.captured /\ FrameSection # "shader")
             => jellyfishShader' = jellyfishShader
       /\ (FrameSection' = "render" /\ jellyfishShader'.captured)
             => jellyfishShader'.uTime = elapsedTime'
       /\ FrameSection' = "clock" =>
             /\ frameSections' = FrameOrder
             /\ causticsOffset' = elapsedTime' \div 10
             /\ swarmPositions' =
                  AnimateSwarm(swarmPosArray, swarmPosArray, elapsedTime')
             /\ \A i \in 1..NumPhotos : Len(glowTweens'[i]) = abyssFrames']_vars

\* C11 witness: the third frame is about to render.  The writes of the first
\* two frames were skipped, the second of them at a later elapsed time, with
\* the particles and the hover polling run all the same; the shader was
\* captured by the second render, and the third frame's write has set the
\* uniform to the third frame's sample.
C11_Witness ==
    /\ ~fault
    /\ abyssFrames = 3
    /\ FrameSection = "render"
    /\ skippedWrites = 2
    /\ jellyfishShader.captured
    /\ jellyfishShader.uTime = elapsedTime
    /\ elapsedTime = 2000
    /\ swarmPositions # swarmPosArray
    /\ Len(glowTweens[1]) = 3
    /\ Newest(glowTweens[1]).end = HoveredGlow

====
